---- MODULE Spec2Model ----
(***************************************************************************)
(* commandeer: record / replay of external command invocations.            *)
(*                                                                         *)
(* The model covers the fixture store (RecordedCommands, load_recordings,  *)
(* save_recordings), the recorder and replayer (record_command,            *)
(* replay_command), the dispatch entrypoint of commandeer-cli (Cli parsing,*)
(* record_mode, replay_mode, main) and the wrapper script written by       *)
(* Commandeer::mock_command.                                               *)
(*                                                                         *)
(* Strings of the program are TLA+ strings, except captured process output,*)
(* which is a sequence of bytes before decoding and a sequence of code     *)
(* points after it.                                                        *)
(***************************************************************************)
EXTENDS Integers, Sequences, FiniteSets, TLC

VARIABLES
    fixture,     \* the fixture file: [state, members]
    parentDir,   \* TRUE when the fixture file's parent directory exists
    earliest,    \* history: per key, the first invocation persisted under it
    count,       \* history: the number of invocations persisted so far
    justRecorded,\* history: <<[invocation, fresh]>> after a successful record
                 \* and after a replay that immediately follows it with the
                 \* same command and args: the invocation record returned,
                 \* and whether the fixture held nothing under its key when
                 \* record started; <<>> otherwise
    last,        \* what the most recent run of the entrypoint did
    child,       \* history: <<outcome>> of the real program the most recent
                 \* run waited for, <<>> when it waited for none
    path,        \* the PATH variable of the test process: directories
    sessions,    \* the Commandeer values created so far, oldest first
    procs        \* the entrypoint processes running side by side

\* the state of the serial runs of the entrypoint
dispatchVars == <<earliest, count, justRecorded, last, child>>

\* the state of the test process
sessionVars == <<path, sessions>>

vars == <<fixture, parentDir, dispatchVars, sessionVars, procs>>

----------------------------------------------------------------------------
(* Bounds and input domains *)

\* number of successful recordings in one behaviour
MaxRecords == 2

\* command names a test mocks
CommandNames == {"git", "echo"}

\* argument lists a test passes to a mocked command
ArgVectors ==
    { <<"-v c">>, <<"-v", "c">>, <<"--file", "x">>, <<"--", "c">>,
      <<"--help">> }

\* U+FFFD REPLACEMENT CHARACTER
Replacement == 65533

\* what running the real program can do: fail to spawn, exit with a code,
\* or die from a signal; stdout and stderr are raw bytes (255 is never
\* valid in UTF-8)
Outcomes ==
    { [kind |-> "spawn_error", code |-> 0, stdout |-> <<>>, stderr |-> <<>>],
      [kind |-> "exited", code |-> 0, stdout |-> <<104, 105>>, stderr |-> <<>>],
      [kind |-> "exited", code |-> 1, stdout |-> <<>>, stderr |-> <<101>>],
      [kind |-> "signaled", code |-> 0, stdout |-> <<104, 255>>, stderr |-> <<>>] }

\* path of the fixture file the session targets
Fixture == "testcmds/cmds_my_test.json"

\* placeholder where no invocation is returned
NoInvocation ==
    [binary_name |-> "", args |-> <<>>, stdout |-> <<>>, stderr |-> <<>>,
     exit_code |-> 0]

----------------------------------------------------------------------------
(* RecordedCommands *)

RECURSIVE Join(_, _)
\* args.join(sep)
Join(args, sep) ==
    IF Len(args) = 0 THEN ""
    ELSE IF Len(args) = 1 THEN args[1]
    ELSE args[1] \o sep \o Join(Tail(args), sep)

\* format!("{binary_name}:{}", args.join(" "))
generate_key(binary_name, args) == binary_name \o ":" \o Join(args, " ")

\* RecordedCommands::default(): no keys
EmptyStore == [k \in {} |-> <<>>]

\* add_invocation with a bug: an invocation equal to one already stored
\* under the key is not pushed again
add_invocation_dedup(commands, invocation) ==
    LET key == generate_key(invocation.binary_name, invocation.args) IN
    IF key \in DOMAIN commands
    THEN IF \E i \in 1..Len(commands[key]) : commands[key][i] = invocation
         THEN commands
         ELSE [commands EXCEPT ![key] = Append(@, invocation)]
    ELSE [k \in DOMAIN commands \cup {key} |->
            IF k = key THEN <<invocation>> ELSE commands[k]]

\* add_invocation with a bug: the entry is keyed by the program name alone
add_invocation_by_name(commands, invocation) ==
    LET key == invocation.binary_name IN
    IF key \in DOMAIN commands
    THEN [commands EXCEPT ![key] = Append(@, invocation)]
    ELSE [k \in DOMAIN commands \cup {key} |->
            IF k = key THEN <<invocation>> ELSE commands[k]]

\* self.commands.entry(key).or_default().push(invocation)
add_invocation(commands, invocation) ==
    LET key == generate_key(invocation.binary_name, invocation.args) IN
    IF key \in DOMAIN commands
    THEN [commands EXCEPT ![key] = Append(@, invocation)]
    ELSE [k \in DOMAIN commands \cup {key} |->
            IF k = key THEN <<invocation>> ELSE commands[k]]

\* find_invocation with a bug: .last() in place of .first()
find_invocation_last(commands, binary_name, args) ==
    LET key == generate_key(binary_name, args) IN
    IF key \notin DOMAIN commands THEN <<>>
    ELSE IF Len(commands[key]) = 0 THEN <<>>
    ELSE <<commands[key][Len(commands[key])]>>

\* self.commands.get(&key)?.first(): <<>> is None, <<inv>> is Some(inv)
find_invocation(commands, binary_name, args) ==
    LET key == generate_key(binary_name, args) IN
    IF key \notin DOMAIN commands THEN <<>>
    ELSE IF Len(commands[key]) = 0 THEN <<>>
    ELSE <<commands[key][1]>>

----------------------------------------------------------------------------
(* The JSON document: an object, that is a set of members <<key, value>>,  *)
(* where value is the array of the invocations recorded under key.         *)

\* serde_json::from_str into the HashMap
from_str(members) ==
    [k \in {m[1] : m \in members} |->
        (CHOOSE m \in members : m[1] = k)[2]]

\* serde_json::to_string_pretty: one member per entry of the HashMap
to_string_pretty(commands) ==
    {<<k, commands[k]>> : k \in DOMAIN commands}

\* the file does not exist
Absent == [state |-> "absent", members |-> {}]

\* the file exists and contents.trim().is_empty()
Blank == [state |-> "blank", members |-> {}]

\* the file exists and serde_json::from_str rejects it
Malformed == [state |-> "malformed", members |-> {}]

\* the file exists and fs::read_to_string fails on it
Unreadable == [state |-> "unreadable", members |-> {}]

\* load_recordings with a bug: a file that cannot be read or parsed counts
\* as an empty store
load_recordings_lenient(file, dir) ==
    IF file.state = "absent"
    THEN [err |-> FALSE, recordings |-> EmptyStore, file |-> file,
          dir |-> TRUE]
    ELSE IF file.state \in {"blank", "unreadable", "malformed"}
    THEN [err |-> FALSE, recordings |-> EmptyStore, file |-> file,
          dir |-> dir]
    ELSE [err |-> FALSE, recordings |-> from_str(file.members),
          file |-> file, dir |-> dir]

\* load_recordings with a bug: a file that does not exist is created empty
load_recordings_touch(file, dir) ==
    IF file.state = "absent"
    THEN [err |-> FALSE, recordings |-> EmptyStore, file |-> Blank,
          dir |-> TRUE]
    ELSE IF file.state = "blank"
    THEN [err |-> FALSE, recordings |-> EmptyStore, file |-> file,
          dir |-> dir]
    ELSE IF file.state \in {"unreadable", "malformed"}
    THEN [err |-> TRUE, recordings |-> EmptyStore, file |-> file,
          dir |-> dir]
    ELSE [err |-> FALSE, recordings |-> from_str(file.members),
          file |-> file, dir |-> dir]

\* load_recordings: the store read, whether it failed, and the file and its
\* parent directory afterwards (create_dir_all runs when the file does not
\* exist; the file itself is only read)
load_recordings(file, dir) ==
    IF file.state = "absent"
    THEN [err |-> FALSE, recordings |-> EmptyStore, file |-> file,
          dir |-> TRUE]
    ELSE IF file.state = "blank"
    THEN [err |-> FALSE, recordings |-> EmptyStore, file |-> file,
          dir |-> dir]
    ELSE IF file.state \in {"unreadable", "malformed"}
    THEN [err |-> TRUE, recordings |-> EmptyStore, file |-> file,
          dir |-> dir]
    ELSE [err |-> FALSE, recordings |-> from_str(file.members),
          file |-> file, dir |-> dir]

\* save_recordings: tokio::fs::write replaces the whole file
save_recordings(commands) ==
    [state |-> "json", members |-> to_string_pretty(commands)]

----------------------------------------------------------------------------
(* Recorder and replayer *)

\* String::from_utf8_lossy on bytes that are ASCII or never valid in UTF-8
from_utf8_lossy(bytes) ==
    [i \in 1..Len(bytes) |-> IF bytes[i] < 128 THEN bytes[i] ELSE Replacement]

\* status.code() with a bug: unwrap_or(0)
status_code_zero(outcome) ==
    IF outcome.kind = "exited" THEN outcome.code ELSE 0

\* output.status.code().unwrap_or(-1)
status_code(outcome) == IF outcome.kind = "exited" THEN outcome.code ELSE -1

\* record_command with a bug: the store is saved before the invocation is
\* added to it
record_command_save_before_add(file, dir, command, args, outcome) ==
    LET loaded == load_recordings(file, dir) IN
    IF loaded.err
    THEN [result |-> "Err", error |-> "load", invocation |-> NoInvocation,
          file |-> loaded.file, dir |-> loaded.dir, spawned |-> FALSE]
    ELSE IF outcome.kind = "spawn_error"
    THEN [result |-> "Err", error |-> "spawn", invocation |-> NoInvocation,
          file |-> loaded.file, dir |-> loaded.dir, spawned |-> FALSE]
    ELSE LET invocation ==
                 [binary_name |-> command,
                  args |-> args,
                  stdout |-> from_utf8_lossy(outcome.stdout),
                  stderr |-> from_utf8_lossy(outcome.stderr),
                  exit_code |-> status_code(outcome)]
         IN [result |-> "Ok", error |-> "", invocation |-> invocation,
             file |-> save_recordings(loaded.recordings),
             dir |-> loaded.dir, spawned |-> TRUE]

\* record_command with a bug: the store is written once before the program
\* is spawned, so a failed spawn leaves a rewritten file
record_command_save_first(file, dir, command, args, outcome) ==
    LET loaded == load_recordings(file, dir) IN
    IF loaded.err
    THEN [result |-> "Err", error |-> "load", invocation |-> NoInvocation,
          file |-> loaded.file, dir |-> loaded.dir, spawned |-> FALSE]
    ELSE IF outcome.kind = "spawn_error"
    THEN [result |-> "Err", error |-> "spawn", invocation |-> NoInvocation,
          file |-> save_recordings(loaded.recordings), dir |-> loaded.dir,
          spawned |-> FALSE]
    ELSE LET invocation ==
                 [binary_name |-> command,
                  args |-> args,
                  stdout |-> from_utf8_lossy(outcome.stdout),
                  stderr |-> from_utf8_lossy(outcome.stderr),
                  exit_code |-> status_code(outcome)]
             recordings == add_invocation(loaded.recordings, invocation)
         IN [result |-> "Ok", error |-> "", invocation |-> invocation,
             file |-> save_recordings(recordings),
             dir |-> loaded.dir, spawned |-> TRUE]

\* record_command with a bug: the program is spawned and awaited before the
\* store is loaded
record_command_spawn_first(file, dir, command, args, outcome) ==
    LET loaded == load_recordings(file, dir) IN
    IF outcome.kind = "spawn_error"
    THEN [result |-> "Err", error |-> "spawn", invocation |-> NoInvocation,
          file |-> file, dir |-> dir, spawned |-> FALSE]
    ELSE IF loaded.err
    THEN [result |-> "Err", error |-> "load", invocation |-> NoInvocation,
          file |-> loaded.file, dir |-> loaded.dir, spawned |-> TRUE]
    ELSE LET invocation ==
                 [binary_name |-> command,
                  args |-> args,
                  stdout |-> from_utf8_lossy(outcome.stdout),
                  stderr |-> from_utf8_lossy(outcome.stderr),
                  exit_code |-> status_code(outcome)]
             recordings == add_invocation(loaded.recordings, invocation)
         IN [result |-> "Ok", error |-> "", invocation |-> invocation,
             file |-> save_recordings(recordings),
             dir |-> loaded.dir, spawned |-> TRUE]

\* record_command with a bug: what is returned is the first invocation the
\* saved store holds under the key
record_command_returns_found(file, dir, command, args, outcome) ==
    LET loaded == load_recordings(file, dir) IN
    IF loaded.err
    THEN [result |-> "Err", error |-> "load", invocation |-> NoInvocation,
          file |-> loaded.file, dir |-> loaded.dir, spawned |-> FALSE]
    ELSE IF outcome.kind = "spawn_error"
    THEN [result |-> "Err", error |-> "spawn", invocation |-> NoInvocation,
          file |-> loaded.file, dir |-> loaded.dir, spawned |-> FALSE]
    ELSE LET invocation ==
                 [binary_name |-> command,
                  args |-> args,
                  stdout |-> from_utf8_lossy(outcome.stdout),
                  stderr |-> from_utf8_lossy(outcome.stderr),
                  exit_code |-> status_code(outcome)]
             recordings == add_invocation(loaded.recordings, invocation)
         IN [result |-> "Ok", error |-> "",
             invocation |-> find_invocation(recordings, command, args)[1],
             file |-> save_recordings(recordings),
             dir |-> loaded.dir, spawned |-> TRUE]

\* record_command: load, spawn and wait, build the invocation, add, save
record_command(file, dir, command, args, outcome) ==
    LET loaded == load_recordings(file, dir) IN
    IF loaded.err
    THEN [result |-> "Err", error |-> "load", invocation |-> NoInvocation,
          file |-> loaded.file, dir |-> loaded.dir, spawned |-> FALSE]
    ELSE IF outcome.kind = "spawn_error"
    THEN [result |-> "Err", error |-> "spawn", invocation |-> NoInvocation,
          file |-> loaded.file, dir |-> loaded.dir, spawned |-> FALSE]
    ELSE LET invocation ==
                 [binary_name |-> command,
                  args |-> args,
                  stdout |-> from_utf8_lossy(outcome.stdout),
                  stderr |-> from_utf8_lossy(outcome.stderr),
                  exit_code |-> status_code(outcome)]
             recordings == add_invocation(loaded.recordings, invocation)
         IN [result |-> "Ok", error |-> "", invocation |-> invocation,
             file |-> save_recordings(recordings),
             dir |-> loaded.dir, spawned |-> TRUE]

\* the truncating record_command with a bug: the flag is ignored
record_command_truncate_ignored(truncate, file, dir, command, args, outcome) ==
    record_command(file, dir, command, args, outcome)

\* record_command with the truncation flag of commandeer-test's entrypoint:
\* when the flag is set the store starts empty instead of being loaded
record_command_truncate(truncate, file, dir, command, args, outcome) ==
    IF ~truncate THEN record_command(file, dir, command, args, outcome)
    ELSE IF outcome.kind = "spawn_error"
    THEN [result |-> "Err", error |-> "spawn", invocation |-> NoInvocation,
          file |-> file, dir |-> dir, spawned |-> FALSE]
    ELSE LET invocation ==
                 [binary_name |-> command,
                  args |-> args,
                  stdout |-> from_utf8_lossy(outcome.stdout),
                  stderr |-> from_utf8_lossy(outcome.stderr),
                  exit_code |-> status_code(outcome)]
             recordings == add_invocation(EmptyStore, invocation)
         IN IF ~dir
            THEN [result |-> "Err", error |-> "save",
                  invocation |-> NoInvocation, file |-> file, dir |-> dir,
                  spawned |-> TRUE]
            ELSE [result |-> "Ok", error |-> "", invocation |-> invocation,
                  file |-> save_recordings(recordings), dir |-> dir,
                  spawned |-> TRUE]

\* replay_command: load, find; Ok(Some), Ok(None) or Err
replay_command(file, dir, command, args) ==
    LET loaded == load_recordings(file, dir) IN
    IF loaded.err
    THEN [result |-> "Err", error |-> "load", invocation |-> NoInvocation,
          file |-> loaded.file, dir |-> loaded.dir]
    ELSE LET found == find_invocation(loaded.recordings, command, args) IN
         IF found = <<>>
         THEN [result |-> "None", error |-> "", invocation |-> NoInvocation,
               file |-> loaded.file, dir |-> loaded.dir]
         ELSE [result |-> "Some", error |-> "", invocation |-> found[1],
               file |-> loaded.file, dir |-> loaded.dir]

\* std::process::exit(code): the status the parent observes is the low byte
exit_with_code(code) == code % 256

\* the status of a process whose main returns Err
ErrorExit == 1

\* the status replay_mode exits with when nothing is found
MissExit == 1

\* the status clap exits with on a usage error
UsageExit == 2

----------------------------------------------------------------------------
(* The entrypoint's command line (clap) and the wrapper script *)

\* Mode's Display
ModeDisplay(mode) == IF mode = "Record" THEN "record" ELSE "replay"

\* the command line the wrapper script execs, after the program's own name:
\* <mode> --file <fixture> --command <command_name> "$@"
mock_command(mode, command_name, received) ==
    <<ModeDisplay(mode), "--file", Fixture, "--command", command_name>>
        \o received

\* the long option a token names, "" when it names none of the subcommand's
LongOption(token) ==
    CASE token = "--file" -> "file"
      [] token = "--command" -> "command"
      [] token = "--help" -> "help"
      [] token = "-h" -> "help"
      [] OTHER -> ""

RECURSIVE parse_tokens(_, _)
\* clap's pass over the tokens after the subcommand name.  An option is
\* matched by name until the first value of the trailing positional `args`
\* (trailing_var_arg) or a "--"; an unknown hyphenated token starts `args`
\* (allow_hyphen_values); from then on every token is a value of `args`.
parse_tokens(tokens, st) ==
    IF st.outcome # "run" THEN st
    ELSE IF Len(tokens) = 0
    THEN IF st.pending # "" \/ st.command = <<>>
         THEN [st EXCEPT !.outcome = "error"]
         ELSE st
    ELSE LET token == Head(tokens)
             rest == Tail(tokens)
             option == LongOption(token)
         IN
         IF st.trailing
         THEN parse_tokens(rest, [st EXCEPT !.args = Append(@, token)])
         ELSE IF token = "--"
         THEN parse_tokens(rest, [st EXCEPT !.trailing = TRUE])
         ELSE IF option = "help"
         THEN [st EXCEPT !.outcome = "help"]
         ELSE IF option # ""
         THEN IF st.pending # "" \/ option \in st.seen
              THEN [st EXCEPT !.outcome = "error"]
              ELSE parse_tokens(rest, [st EXCEPT !.pending = option,
                                                !.seen = @ \cup {option}])
         ELSE IF st.pending = "file"
         THEN parse_tokens(rest, [st EXCEPT !.file = token, !.pending = ""])
         ELSE IF st.pending = "command"
         THEN parse_tokens(rest, [st EXCEPT !.command = <<token>>,
                                           !.pending = ""])
         ELSE parse_tokens(rest, [st EXCEPT !.args = <<token>>,
                                           !.trailing = TRUE])

\* Cli::parse(): the subcommand, then its options and trailing args
Commands(argv) ==
    LET start == [outcome |-> "run", file |-> "recordings.json",
                  command |-> <<>>, args |-> <<>>, pending |-> "",
                  seen |-> {}, trailing |-> FALSE]
    IN
    IF Len(argv) = 0 \/ argv[1] \notin {"record", "replay"}
    THEN [start EXCEPT !.outcome = "error"] @@ [mode |-> ""]
    ELSE parse_tokens(Tail(argv), start)
            @@ [mode |-> IF argv[1] = "record" THEN "Record" ELSE "Replay"]

----------------------------------------------------------------------------
(* The dispatch entrypoint: main, record_mode, replay_mode *)

\* the code points of the text written to a stream, or <<>>
NoOutput == <<>>

\* what the entrypoint did, as its caller and the file system see it
Ran(op, test_command, test_args, cli, result, invocation, spawned, out, errout, diagnostic, status) ==
    [op |-> op, test_command |-> test_command, test_args |-> test_args,
     command |-> cli.command, args |-> cli.args, result |-> result,
     invocation |-> invocation, spawned |-> spawned, out |-> out,
     errout |-> errout, diagnostic |-> diagnostic, status |-> status]

\* record_mode: record_command(..)?, output_invocation, exit_with_code
record_mode(test_command, test_args, cli, r) ==
    IF r.result = "Err"
    THEN Ran("record", test_command, test_args, cli, "Err", NoInvocation,
             r.spawned, NoOutput, NoOutput, "Error: " \o r.error, ErrorExit)
    ELSE Ran("record", test_command, test_args, cli, "Ok", r.invocation,
             r.spawned, r.invocation.stdout, r.invocation.stderr, "",
             exit_with_code(r.invocation.exit_code))

\* replay_mode with a bug: a miss is reported as the error of the run
replay_mode_miss_is_error(test_command, test_args, cli, r) ==
    IF r.result = "Some"
    THEN Ran("replay", test_command, test_args, cli, "Some", r.invocation,
             FALSE, r.invocation.stdout, r.invocation.stderr, "",
             exit_with_code(r.invocation.exit_code))
    ELSE Ran("replay", test_command, test_args, cli, "Err", NoInvocation,
             FALSE, NoOutput, NoOutput, "Error: " \o r.error, ErrorExit)

\* replay_mode: replay_command(..)?, then the invocation's output and exit
\* code, or the diagnostic and exit code 1
replay_mode(test_command, test_args, cli, r) ==
    IF r.result = "Err"
    THEN Ran("replay", test_command, test_args, cli, "Err", NoInvocation,
             FALSE, NoOutput, NoOutput, "Error: " \o r.error, ErrorExit)
    ELSE IF r.result = "Some"
    THEN Ran("replay", test_command, test_args, cli, "Some", r.invocation,
             FALSE, r.invocation.stdout, r.invocation.stderr, "",
             exit_with_code(r.invocation.exit_code))
    ELSE Ran("replay", test_command, test_args, cli, "None", NoInvocation,
             FALSE, NoOutput, NoOutput,
             "No recorded invocation found for: " \o cli.command[1] \o " "
                 \o Join(cli.args, " "),
             MissExit)

\* the keys of the document in a fixture file
Keys(file) == {m[1] : m \in file.members}

\* the array stored under key in a fixture file, <<>> when there is none
Stored(file, key) ==
    IF key \in Keys(file)
    THEN (CHOOSE m \in file.members : m[1] = key)[2]
    ELSE <<>>

----------------------------------------------------------------------------
(* The test process: Commandeer sessions and the PATH variable *)

\* the PATH of the test process before any session: one directory, which
\* holds the real programs
InitialPath == <<"/usr/bin">>

\* the programs installed in the directories of InitialPath
RealPrograms == {"git", "echo"}

\* sessions created in one test process
MaxSessions == 3

\* TempDir::new(): a directory no earlier session has used
TempDir(n) == "/tmp/" \o ToString(n)

\* Commandeer::new with a bug: the temporary directory goes last on PATH
Commandeer_new_appending(searchPath, n, mode) ==
    [session |-> [temp_dir |-> TempDir(n), mode |-> mode,
                  original_path |-> searchPath, alive |-> TRUE,
                  artifacts |-> EmptyStore],
     path |-> searchPath \o <<TempDir(n)>>]

\* Commandeer::new: the session, and PATH after set_var
\* (format!("{}:{original_path}", temp_dir))
Commandeer_new(searchPath, n, mode) ==
    [session |-> [temp_dir |-> TempDir(n), mode |-> mode,
                  original_path |-> searchPath, alive |-> TRUE,
                  artifacts |-> EmptyStore],
     path |-> <<TempDir(n)>> \o searchPath]

\* the wrapper script mock_command writes: what it sets PATH to and the
\* entrypoint command line it execs before "$@"
wrapper(session, command_name) ==
    [PATH |-> session.original_path,
     argv |-> mock_command(session.mode, command_name, <<>>)]

\* Commandeer::mock_command: the executable temp_dir/command_name is written
write_wrapper(session, command_name) ==
    [session EXCEPT !.artifacts =
        [c \in DOMAIN session.artifacts \cup {command_name} |->
            IF c = command_name THEN wrapper(session, command_name)
            ELSE session.artifacts[c]]]

\* the end of a session with a bug: PATH is set back to what the session
\* saved
drop_restoring(session, searchPath) ==
    [session |-> [session EXCEPT !.alive = FALSE, !.artifacts = EmptyStore],
     path |-> session.original_path]

\* the end of a session: the Commandeer value is dropped and its TempDir
\* removes the directory with the artifacts in it; nothing touches PATH
drop(session, searchPath) ==
    [session |-> [session EXCEPT !.alive = FALSE, !.artifacts = EmptyStore],
     path |-> searchPath]

RECURSIVE Resolve(_, _, _)
\* what the operating system finds for a command name on a search path: the
\* first directory that holds an executable of that name
Resolve(searchPath, all, command_name) ==
    IF Len(searchPath) = 0 THEN [kind |-> "none", dir |-> ""]
    ELSE LET dir == Head(searchPath) IN
         IF \/ dir \in {InitialPath[i] : i \in 1..Len(InitialPath)}
                  /\ command_name \in RealPrograms
         THEN [kind |-> "real", dir |-> dir]
         ELSE IF \E i \in 1..Len(all) :
                    /\ all[i].temp_dir = dir
                    /\ all[i].alive
                    /\ command_name \in DOMAIN all[i].artifacts
         THEN [kind |-> "artifact", dir |-> dir]
         ELSE Resolve(Tail(searchPath), all, command_name)

\* no session yet
InitSessions ==
    /\ path = InitialPath
    /\ sessions = <<>>

\* a test creates a session
NewSession ==
    \E mode \in {"Record", "Replay"} :
        /\ Len(sessions) < MaxSessions
        /\ LET made == Commandeer_new(path, Len(sessions) + 1, mode) IN
           /\ sessions' = Append(sessions, made.session)
           /\ path' = made.path
        /\ UNCHANGED <<fixture, parentDir, dispatchVars, procs>>

\* a test mocks a command in a session it holds
MockCommand ==
    \E i \in 1..Len(sessions), c \in CommandNames :
        /\ sessions[i].alive
        /\ sessions' = [sessions EXCEPT ![i] = write_wrapper(@, c)]
        /\ UNCHANGED <<fixture, parentDir, dispatchVars, path, procs>>

\* a session goes out of scope
EndSession ==
    \E i \in 1..Len(sessions) :
        /\ sessions[i].alive
        /\ LET ended == drop(sessions[i], path) IN
           /\ sessions' = [sessions EXCEPT ![i] = ended.session]
           /\ path' = ended.path
        /\ UNCHANGED <<fixture, parentDir, dispatchVars, procs>>

NextSessions == NewSession \/ MockCommand \/ EndSession

----------------------------------------------------------------------------
(* Entrypoint processes running side by side on one fixture file *)

\* entrypoint processes started on the one fixture file
MaxProcs == 2

\* the arguments the processes are started with
ProcArgs == <<"-v", "c">>

\* a spawned program that never exits
Hangs == [kind |-> "hangs", code |-> 0, stdout |-> <<>>, stderr |-> <<>>]

\* what can become of the program a process spawns: the spawn fails, the
\* program exits with a code, or it never exits
ProcOutcomes == {o \in Outcomes : o.kind # "signaled"} \cup {Hangs}

\* Command::output().await with a bug: a timeout ends the wait
output_completes_timeout(outcome) == TRUE

\* Command::output().await completes when the program has exited; there is
\* no timeout
output_completes(outcome) == outcome.kind # "hangs"

\* the end of record_command with a bug: the store is loaded again before
\* the invocation is added and the file written
record_save_reloading(file, recordings, invocation) ==
    save_recordings(
        add_invocation(load_recordings(file, TRUE).recordings, invocation))

\* the end of record_command: the invocation is added to the store loaded
\* at the start and the file is replaced by that store
record_save(file, recordings, invocation) ==
    save_recordings(add_invocation(recordings, invocation))

\* a process that has just started: main has parsed its command line
Started(op, command) ==
    [op |-> op, command |-> command, args |-> ProcArgs, pc |-> "load",
     recordings |-> EmptyStore, child |-> <<>>, invocation |-> NoInvocation,
     result |-> "", status |-> 0, stale |-> FALSE, order |-> 0]

\* the processes that have written the fixture file
Saved == {i \in 1..Len(procs) : procs[i].order > 0}

\* no process yet
InitProcs == procs = <<>>

\* a test runs a mocked command while others may still be running
ProcStart ==
    \E op \in {"record", "replay"}, command \in CommandNames :
        /\ Len(procs) < MaxProcs
        /\ procs' = Append(procs, Started(op, command))
        /\ UNCHANGED <<fixture, parentDir, dispatchVars, sessionVars>>

\* record_command up to the spawn: load_recordings.  replay_command as a
\* whole: it loads, looks up and returns, and replay_mode exits
ProcLoad(i) ==
    /\ i \in 1..Len(procs)
    /\ procs[i].pc = "load"
    /\ IF procs[i].op = "record"
       THEN LET loaded == load_recordings(fixture, parentDir) IN
            /\ fixture' = loaded.file
            /\ parentDir' = loaded.dir
            /\ procs' = [procs EXCEPT ![i] =
                  IF loaded.err
                  THEN [@ EXCEPT !.pc = "done", !.result = "Err",
                                 !.status = ErrorExit]
                  ELSE [@ EXCEPT !.pc = "spawn",
                                 !.recordings = loaded.recordings]]
       ELSE LET r == replay_command(fixture, parentDir, procs[i].command,
                                    procs[i].args)
            IN /\ fixture' = r.file
               /\ parentDir' = r.dir
               /\ procs' = [procs EXCEPT ![i] =
                     [@ EXCEPT !.pc = "done", !.result = r.result,
                               !.invocation = r.invocation,
                               !.status =
                                   IF r.result = "Err" THEN ErrorExit
                                   ELSE IF r.result = "None" THEN MissExit
                                   ELSE exit_with_code(r.invocation.exit_code)]]
    /\ UNCHANGED <<dispatchVars, sessionVars>>

\* record_command: Command::new(&command).args(&args).output() spawns the
\* program, or fails to
ProcSpawn(i) ==
    /\ i \in 1..Len(procs)
    /\ procs[i].pc = "spawn"
    /\ \E outcome \in ProcOutcomes :
           procs' = [procs EXCEPT ![i] =
               IF outcome.kind = "spawn_error"
               THEN [@ EXCEPT !.pc = "done", !.result = "Err",
                              !.status = ErrorExit]
               ELSE [@ EXCEPT !.pc = "wait", !.child = <<outcome>>]]
    /\ UNCHANGED <<fixture, parentDir, dispatchVars, sessionVars>>

\* record_command after the await: the invocation is built, added and
\* saved, and record_mode exits with its exit code.  A process that loaded
\* before this write and has not written yet now holds a stale store.
ProcFinish(i) ==
    /\ i \in 1..Len(procs)
    /\ procs[i].pc = "wait"
    /\ output_completes(procs[i].child[1])
    /\ LET outcome == procs[i].child[1]
           invocation ==
               [binary_name |-> procs[i].command,
                args |-> procs[i].args,
                stdout |-> from_utf8_lossy(outcome.stdout),
                stderr |-> from_utf8_lossy(outcome.stderr),
                exit_code |-> status_code(outcome)]
       IN /\ fixture' = record_save(fixture, procs[i].recordings, invocation)
          /\ procs' = [j \in 1..Len(procs) |->
                IF j = i
                THEN [procs[j] EXCEPT !.pc = "done", !.result = "Ok",
                         !.invocation = invocation,
                         !.status = exit_with_code(invocation.exit_code),
                         !.order = Cardinality(Saved) + 1]
                ELSE IF procs[j].op = "record"
                        /\ procs[j].pc \in {"spawn", "wait"}
                THEN [procs[j] EXCEPT !.stale = TRUE]
                ELSE procs[j]]
    /\ UNCHANGED <<parentDir, dispatchVars, sessionVars>>

\* one step of process i
ProcStep(i) == ProcLoad(i) \/ ProcSpawn(i) \/ ProcFinish(i)

NextProcs == ProcStart \/ \E i \in 1..MaxProcs : ProcStep(i)

----------------------------------------------------------------------------
(* Serial runs of the entrypoint *)

\* every way a test can run a mocked command, with what Cli::parse() makes
\* of the command line the wrapper script passes on
Dispatches ==
    { [mode |-> mode, test_command |-> c, test_args |-> a,
       cli |-> Commands(mock_command(mode, c, a))] :
        mode \in {"Record", "Replay"}, c \in CommandNames, a \in ArgVectors }

\* a test runs a mocked command in a Record session and the command line is
\* accepted: main dispatches to record_mode
RecordDispatch ==
    \E d \in Dispatches, outcome \in Outcomes :
        /\ d.mode = "Record"
        /\ d.cli.outcome = "run"
        /\ outcome.kind # "spawn_error" => count < MaxRecords
        /\ LET r == record_command(fixture, parentDir, d.cli.command[1],
                                   d.cli.args, outcome)
               key == generate_key(d.cli.command[1], d.cli.args)
           IN /\ fixture' = r.file
              /\ parentDir' = r.dir
              /\ earliest' = IF r.result = "Ok" /\ key \notin DOMAIN earliest
                             THEN earliest @@ (key :> r.invocation)
                             ELSE earliest
              /\ count' = IF r.result = "Ok" THEN count + 1 ELSE count
              /\ justRecorded' =
                    IF r.result = "Ok"
                    THEN <<[invocation |-> r.invocation,
                            fresh |-> key \notin Keys(fixture)]>>
                    ELSE <<>>
              /\ last' = record_mode(d.test_command, d.test_args, d.cli, r)
              /\ child' = IF r.spawned THEN <<outcome>> ELSE <<>>
        /\ UNCHANGED <<sessionVars, procs>>

\* a test runs a mocked command in a Replay session and the command line is
\* accepted: main dispatches to replay_mode
ReplayDispatch ==
    \E d \in Dispatches :
        /\ d.mode = "Replay"
        /\ d.cli.outcome = "run"
        /\ LET r == replay_command(fixture, parentDir, d.cli.command[1],
                                   d.cli.args)
           IN /\ fixture' = r.file
              /\ parentDir' = r.dir
              /\ last' = replay_mode(d.test_command, d.test_args, d.cli, r)
        /\ justRecorded' =
              IF /\ last.op = "record"
                 /\ last.result = "Ok"
                 /\ last.command = d.cli.command
                 /\ last.args = d.cli.args
              THEN justRecorded
              ELSE <<>>
        /\ child' = <<>>
        /\ UNCHANGED <<earliest, count, sessionVars, procs>>

\* a test runs a mocked command and Cli::parse() ends the process: with the
\* help text, or with a usage error
UsageExitDispatch ==
    \E d \in Dispatches :
        /\ d.cli.outcome # "run"
        /\ last' = Ran("usage", d.test_command, d.test_args, d.cli,
                       d.cli.outcome, NoInvocation, FALSE, NoOutput,
                       NoOutput, d.cli.outcome,
                       IF d.cli.outcome = "help" THEN 0 ELSE UsageExit)
        /\ justRecorded' = <<>>
        /\ child' = <<>>
        /\ UNCHANGED <<fixture, parentDir, earliest, count, sessionVars, procs>>

\* commandeer-test's entrypoint is run in record mode, with or without
\* --truncate: main dispatches to its record_mode
TruncateDispatch ==
    \E d \in Dispatches, outcome \in Outcomes, truncate \in BOOLEAN :
        /\ d.mode = "Record"
        /\ d.cli.outcome = "run"
        /\ outcome.kind # "spawn_error" => count < MaxRecords
        /\ LET r == record_command_truncate(truncate, fixture, parentDir,
                                            d.cli.command[1], d.cli.args,
                                            outcome)
               key == generate_key(d.cli.command[1], d.cli.args)
           IN /\ fixture' = r.file
              /\ parentDir' = r.dir
              /\ earliest' = IF r.result # "Ok" THEN earliest
                             ELSE IF truncate THEN key :> r.invocation
                             ELSE IF key \in DOMAIN earliest THEN earliest
                             ELSE earliest @@ (key :> r.invocation)
              /\ count' = IF r.result = "Ok" THEN count + 1 ELSE count
              /\ justRecorded' = <<>>
              /\ last' = [record_mode(d.test_command, d.test_args, d.cli, r)
                            EXCEPT !.op = IF truncate THEN "record_truncate"
                                          ELSE "record"]
              /\ child' = IF r.spawned THEN <<outcome>> ELSE <<>>
        /\ UNCHANGED <<sessionVars, procs>>

\* before any run of the entrypoint
InitDispatch ==
    /\ earliest = EmptyStore
    /\ count = 0
    /\ justRecorded = <<>>
    /\ last = Ran("none", "", <<>>, [command |-> <<>>, args |-> <<>>], "",
                  NoInvocation, FALSE, NoOutput, NoOutput, "", 0)
    /\ child = <<>>

\* before any run: no fixture file yet, or an empty one
Init ==
    /\ \E f \in {Absent, Blank} :
          /\ fixture = f
          /\ parentDir \in (IF f = Absent THEN BOOLEAN ELSE {TRUE})
    /\ InitDispatch
    /\ InitSessions
    /\ InitProcs

Next == RecordDispatch \/ ReplayDispatch \/ UsageExitDispatch

Spec == Init /\ [][Next]_vars

\* the same, with commandeer-test's entrypoint and its truncation flag
NextTruncate == Next \/ TruncateDispatch

SpecTruncate == Init /\ [][NextTruncate]_vars

\* before any run: the fixture file may also be one that load cannot use
InitAnyFixture ==
    /\ \E f \in {Absent, Blank, Unreadable, Malformed} :
          /\ fixture = f
          /\ parentDir \in (IF f = Absent THEN BOOLEAN ELSE {TRUE})
    /\ InitDispatch
    /\ InitSessions
    /\ InitProcs

\* serial runs of the entrypoint on any fixture file
SpecAnyFixture == InitAnyFixture /\ [][Next]_vars

\* entrypoint processes side by side: a process that can take a step does
\* so in the end, and a spawned program that exits does so in finite time
SpecProcs ==
    /\ Init
    /\ [][NextProcs]_vars
    /\ \A i \in 1..MaxProcs : WF_vars(ProcStep(i))

\* the test process alone: sessions are created, mock commands and end
SpecSessions == Init /\ [][NextSessions]_vars

----------------------------------------------------------------------------
(* Properties *)

\* the key of the command and args the last run of the entrypoint was for
LastKey == generate_key(last.command[1], last.args)

\* two invocations agree on stdout, stderr and exit code
SameOutput(a, b) ==
    /\ a.stdout = b.stdout
    /\ a.stderr = b.stderr
    /\ a.exit_code = b.exit_code

\* the last run was a replay that immediately followed a successful record
\* of the same command name and arguments
ReplayAfterRecord == last.op = "replay" /\ justRecorded # <<>>

\* C1 as stated: a successful record immediately followed by a replay of the
\* same name and arguments returns the output record just returned, whatever
\* the fixture held before.
C1_RoundTripAnyFixture ==
    ReplayAfterRecord =>
        /\ last.result = "Some"
        /\ SameOutput(last.invocation, justRecorded[1].invocation)

\* C1 amended: a successful record on a fixture holding no invocation under
\* the key of (name, args), immediately followed by a replay of the same
\* name and arguments, returns the stdout, stderr and exit code record
\* just returned.
C1_RoundTripFreshKey ==
    (ReplayAfterRecord /\ justRecorded[1].fresh) =>
        /\ last.result = "Some"
        /\ SameOutput(last.invocation, justRecorded[1].invocation)

\* C1 witness: a replay hit right after the first record under its key
C1_Witness ==
    /\ ReplayAfterRecord
    /\ justRecorded[1].fresh
    /\ last.result = "Some"
    /\ Cardinality(Keys(fixture)) = 2

\* C2: a replay of (name, args) returns the earliest invocation ever
\* recorded under the key of (name, args), however many were recorded under
\* it afterwards and however often it is replayed.
C2_FirstMatch ==
    (last.op = "replay" /\ LastKey \in DOMAIN earliest) =>
        /\ last.result = "Some"
        /\ last.invocation = earliest[LastKey]

\* C2 witness: a replay hit on a key recorded twice with different outputs
C2_Witness ==
    /\ last.op = "replay"
    /\ last.result = "Some"
    /\ Len(Stored(fixture, LastKey)) = 2
    /\ ~SameOutput(Stored(fixture, LastKey)[1], Stored(fixture, LastKey)[2])

\* C3 as stated: the invocation a replay returns has the requested command
\* name and exactly the requested argument list.
C3_ExactMatch ==
    (last.op = "replay" /\ last.result = "Some") =>
        /\ last.invocation.binary_name = last.command[1]
        /\ last.invocation.args = last.args

\* C4: a replay of a (name, args) under whose key nothing was recorded,
\* also when the fixture file does not exist, finds nothing, writes the
\* diagnostic naming the command and its arguments, exits with status 1,
\* returns no error and leaves the fixture file as it was, absent if absent.
C4_Miss ==
    [][(last'.op = "replay" /\ generate_key(last'.command[1], last'.args)
                                    \notin DOMAIN earliest')
         => /\ last'.result = "None"
            /\ last'.diagnostic = "No recorded invocation found for: "
                   \o last'.command[1] \o " " \o Join(last'.args, " ")
            /\ last'.status = 1
            /\ last'.out = <<>> /\ last'.errout = <<>>
            /\ fixture' = fixture]_vars

\* C4 witness: a miss against a fixture file that does not exist
C4_Witness ==
    /\ last.op = "replay"
    /\ last.result = "None"
    /\ fixture.state = "absent"
    /\ last.status = 1

\* C5 as stated: no replay that finds an invocation exits with the status
\* of a miss.
C5_MissStatusReserved ==
    (last.op = "replay" /\ last.result = "Some") => last.status # MissExit

\* C6: a successful record with the truncation flag leaves exactly one
\* invocation in the fixture, the new one, whatever the fixture held.
C6_Truncation ==
    (last.op = "record_truncate" /\ last.result = "Ok") =>
        /\ fixture.state = "json"
        /\ fixture.members = {<<LastKey, <<last.invocation>>>>}

\* C6 witness: a truncating record after an earlier recording under
\* another key
C6_Witness ==
    /\ last.op = "record_truncate"
    /\ last.result = "Ok"
    /\ count = 2
    /\ Cardinality(DOMAIN earliest) = 1

\* C7: a successful record keeps every key of the fixture, leaves the array
\* of every other key as it was, and appends the new invocation to the array
\* of its own key; nothing is deduplicated.
C7_AppendOnly ==
    [][(last'.op = "record" /\ last'.result = "Ok" /\ count' = count + 1)
         => LET key == generate_key(last'.command[1], last'.args) IN
            /\ Keys(fixture') = Keys(fixture) \cup {key}
            /\ \A k \in Keys(fixture) \ {key} :
                  Stored(fixture', k) = Stored(fixture, k)
            /\ Stored(fixture', key)
                  = Append(Stored(fixture, key), last'.invocation)]_vars

\* C7 witness: the same invocation recorded twice is stored twice
C7_Witness ==
    /\ last.op = "record"
    /\ last.result = "Ok"
    /\ Stored(fixture, LastKey) = <<last.invocation, last.invocation>>

\* C8: a replay, hit or miss, spawns nothing and leaves the fixture file,
\* its existence and its content, as it was.
C8_ReplayReadOnly ==
    [][last'.op = "replay" =>
          /\ fixture' = fixture
          /\ ~last'.spawned
          /\ count' = count]_vars

\* C8 witness: a replay hit, and the fixture still holds what was recorded
C8_Witness ==
    /\ last.op = "replay"
    /\ last.result = "Some"
    /\ count = 2
    /\ Cardinality(Keys(fixture)) = 2

\* C9: when the real program cannot be spawned, record returns an error and
\* the fixture file is neither created nor rewritten.
C9_SpawnFailure ==
    [][(last'.op = "record" /\ last'.diagnostic = "Error: spawn")
         => /\ last'.result = "Err"
            /\ last'.status = ErrorExit
            /\ fixture' = fixture
            /\ count' = count]_vars

\* C9 witness: a failed spawn with no fixture file, and none afterwards
C9_Witness ==
    /\ last.op = "record"
    /\ last.diagnostic = "Error: spawn"
    /\ fixture.state = "absent"
    /\ parentDir

\* C10 as stated: whatever argument list a test passes to a mocked command,
\* the entrypoint runs the command with exactly that list as its args.
C10_VerbatimArgs ==
    last.op # "none" =>
        /\ last.op \in {"record", "replay"}
        /\ last.command = <<last.test_command>>
        /\ last.args = last.test_args

\* the sessions that are alive and have mocked the command
Mocking(c) ==
    {i \in 1..Len(sessions) :
        sessions[i].alive /\ c \in DOMAIN sessions[i].artifacts}

C12_NoReentry ==
    \A i \in 1..Len(sessions) : \A c \in DOMAIN sessions[i].artifacts :
        LET restored == sessions[i].artifacts[c].PATH IN
        /\ \A j \in 1..Len(sessions), k \in 1..Len(restored) :
              restored[k] # sessions[j].temp_dir
        /\ Resolve(restored, sessions, c).kind = "real"

\* the temporary directories of the first n sessions, newest first
RECURSIVE NewestFirst(_)
NewestFirst(n) ==
    IF n = 0 THEN <<>> ELSE <<sessions[n].temp_dir>> \o NewestFirst(n - 1)

\* C14: PATH is the temporary directories of all sessions ever created,
\* newest first and ended or not, followed by the initial PATH.
C14_PathNeverReverted ==
    path = NewestFirst(Len(sessions)) \o InitialPath

\* C14 witness: sessions have ended and their directories are still on PATH
C14_Witness ==
    /\ Len(sessions) = 3
    /\ ~sessions[1].alive /\ ~sessions[3].alive /\ sessions[2].alive
    /\ path = <<TempDir(3), TempDir(2), TempDir(1)>> \o InitialPath

\* C15: a run that loads a fixture file that is absent or blank goes on with
\* the empty store and no error (a replay finds nothing, a record writes a
\* document holding just its own invocation); on a file that is not JSON the
\* run fails with the load error; and where the run writes nothing after
\* loading, the fixture file is afterwards what it was: load neither creates
\* nor changes it.
C15_LoadOutcomes ==
    [][ /\ (last'.op = "replay" /\ fixture \in {Absent, Blank}) =>
              /\ last'.result = "None"
              /\ fixture' = fixture
        /\ (last'.op = "record" /\ last'.result = "Ok"
                /\ fixture \in {Absent, Blank}) =>
              fixture'.members
                  = {<<generate_key(last'.command[1], last'.args),
                       <<last'.invocation>>>>}
        /\ (last'.op \in {"record", "replay"} /\ fixture = Malformed) =>
              /\ last'.result = "Err"
              /\ last'.diagnostic = "Error: load"
              /\ last'.status = ErrorExit
              /\ fixture' = fixture
      ]_vars

\* C15 witness: a replay has failed on a fixture file that is not JSON
C15_Witness ==
    /\ last.op = "replay"
    /\ last.result = "Err"
    /\ fixture = Malformed

\* C18: when the load fails (the file is not JSON or cannot be read), record
\* returns the load error, no program has been spawned and the fixture file
\* is what it was.
C18_LoadPrecedesSpawn ==
    [][ (last'.op = "record" /\ fixture \in {Malformed, Unreadable}) =>
            /\ last'.result = "Err"
            /\ last'.diagnostic = "Error: load"
            /\ ~last'.spawned
            /\ child' = <<>>
            /\ fixture' = fixture
      ]_vars

\* C18 witness: a record has failed on a file that cannot be read, with
\* nothing spawned
C18_Witness ==
    /\ last.op = "record"
    /\ last.diagnostic = "Error: load"
    /\ ~last.spawned
    /\ fixture = Unreadable

\* the last run of the entrypoint was a record that succeeded
Recorded == last.op = "record" /\ last.result = "Ok"

\* C17 as stated: the stored exit_code is the program's exit code, or -1
\* when a signal ended it, and the Record-mode entrypoint terminates with
\* that stored exit_code as its status.
C17_ExitWithStoredCode ==
    Recorded =>
        /\ last.invocation.exit_code
              = (IF child[1].kind = "exited" THEN child[1].code ELSE -1)
        /\ last.status = last.invocation.exit_code

\* C17: the stored exit_code is the program's exit code, or -1 when a signal
\* ended it; the Record-mode entrypoint terminates with the program's exit
\* code as its status, and with status 255 when the stored exit_code is -1.
C17_ExitCodeCapture ==
    Recorded =>
        LET stored == Stored(fixture, LastKey) IN
        /\ last.invocation.exit_code
              = (IF child[1].kind = "exited" THEN child[1].code ELSE -1)
        /\ stored[Len(stored)].exit_code = last.invocation.exit_code
        /\ last.status
              = (IF child[1].kind = "exited" THEN child[1].code ELSE 255)

\* C17 witness: the recorded program was ended by a signal
C17_Witness ==
    /\ Recorded
    /\ child[1].kind = "signaled"
    /\ last.invocation.exit_code = -1
    /\ last.status = 255

\* C19: in the fixture file every invocation stored under a key has that key
\* as the key of its own binary_name and args, no key holds an empty array,
\* and a replay reports not-found exactly when no record was ever made under
\* the key it asks for.
C19_WellFormedStore ==
    /\ \A m \in fixture.members :
          /\ Len(m[2]) > 0
          /\ \A i \in 1..Len(m[2]) :
                generate_key(m[2][i].binary_name, m[2][i].args) = m[1]
    /\ Keys(fixture) = DOMAIN earliest
    /\ last.op = "replay" =>
          (last.result = "None" <=> LastKey \notin DOMAIN earliest)

\* C19 witness: two keys are stored and a replay has missed a third
C19_Witness ==
    /\ Cardinality(Keys(fixture)) = 2
    /\ last.op = "replay"
    /\ last.result = "None"

\* C20: a record that succeeds returns the invocation built from the run of
\* the program it has just awaited, the entrypoint writes that invocation's
\* stdout and stderr, and the invocation is the last element of the array
\* stored under its key in the fixture file, whatever was stored there
\* before.
C20_FreshCapture ==
    Recorded =>
        LET stored == Stored(fixture, LastKey) IN
        /\ last.invocation
              = [binary_name |-> last.command[1],
                 args |-> last.args,
                 stdout |-> from_utf8_lossy(child[1].stdout),
                 stderr |-> from_utf8_lossy(child[1].stderr),
                 exit_code |-> status_code(child[1])]
        /\ last.out = last.invocation.stdout
        /\ last.errout = last.invocation.stderr
        /\ stored[Len(stored)] = last.invocation

\* C20 witness: the key held a different invocation before this record
C20_Witness ==
    /\ Recorded
    /\ Len(Stored(fixture, LastKey)) = 2
    /\ Stored(fixture, LastKey)[1] # last.invocation

\* the key process i records or replays under
ProcKey(i) == generate_key(procs[i].command, procs[i].args)

\* C13: with records running side by side on one fixture file, the file
\* holds the invocation of the latest writer as the last element under its
\* key, and it holds one invocation for every record that has written
\* exactly when no writer loaded the file before and wrote it after another
\* record's write; a writer that did so has wiped out that other write.
C13_LostUpdate ==
    LET n(key) == Cardinality({i \in Saved : ProcKey(i) = key}) IN
    /\ \A i \in Saved :
          procs[i].order = Cardinality(Saved) =>
              LET stored == Stored(fixture, ProcKey(i)) IN
              /\ Len(stored) > 0
              /\ stored[Len(stored)] = procs[i].invocation
    /\ \A i \in 1..Len(procs) : Len(Stored(fixture, ProcKey(i))) <= n(ProcKey(i))
    /\ (\A i \in 1..Len(procs) :
            Len(Stored(fixture, ProcKey(i))) = n(ProcKey(i)))
          <=> (\A i \in Saved : ~procs[i].stale)

\* C13 witness: two records have written, the second from a store loaded
\* before the first one's write, and the first one's invocation is gone
C13_Witness ==
    \E i, j \in Saved :
        /\ procs[i].order = 1
        /\ procs[j].order = 2
        /\ procs[j].stale
        /\ procs[i].invocation # procs[j].invocation
        /\ ProcKey(i) = ProcKey(j)
        /\ Stored(fixture, ProcKey(i)) = <<procs[j].invocation>>

\* process i has been started with this operation
Is(i, op) == i <= Len(procs) /\ procs[i].op = op

\* process i has exited
Done(i) == i <= Len(procs) /\ procs[i].pc = "done"

\* process i waits for the program it has spawned
Waits(i) == i <= Len(procs) /\ procs[i].pc = "wait"

\* process i waits for a program that never exits
WaitsForever(i) == Waits(i) /\ procs[i].child[1].kind = "hangs"

\* C16: a Replay-mode process never has a child and always terminates; a
\* Record-mode process that has spawned the program terminates when the
\* program exits, and one whose program never exits stays in its wait: no
\* step takes it out of it.
C16_Termination ==
    /\ \A i \in 1..MaxProcs :
          /\ [](Is(i, "replay") => procs[i].child = <<>>)
          /\ [](Is(i, "replay") \/ (Waits(i) /\ ~WaitsForever(i))
                    => <>Done(i))
    /\ [][\A i \in 1..MaxProcs : WaitsForever(i) => WaitsForever(i)']_vars

\* C16 witness: one record has ended after its program exited and another
\* waits for a program that never exits
C16_Witness ==
    \E i, j \in 1..Len(procs) :
        /\ procs[i].op = "record" /\ procs[i].pc = "done"
        /\ procs[i].result = "Ok"
        /\ procs[j].pc = "wait" /\ procs[j].child[1].kind = "hangs"

====
